---- MODULE Spec2Model ----
(***************************************************************************)
(* Model of src/scripts/collection-filter.js: the Webflow collection       *)
(* filter (live search + single-select dropdown facets), its public API    *)
(* window.WebflowFilter, its bootstrap, the Finsweet 'renderitems' hook    *)
(* and the 1-second reconciliation poll.                                   *)
(*                                                                         *)
(* Text is a sequence of characters; a character is a one-element token.  *)
(* Characters outside ASCII are named: "E_acute" is U+00C9, "e_acute" is   *)
(* U+00E9, "acute" is U+0301 (combining class 230), "cgj" is U+034F        *)
(* COMBINING GRAPHEME JOINER (combining class 0), "etnahta" is U+0591      *)
(* (combining class 220), "sheva" is U+05B0 (combining class 10).          *)
(***************************************************************************)
EXTENDS Integers, Sequences, FiniteSets

VARIABLES
  state,          \* the script's `state` object (searchQuery, dropdownSelections, items, dropdownWrappers)
  display,        \* item.style.display of every item element: "" or "none"
  docItems,       \* the item elements currently in the document
  docWrappers,    \* the dropdown wrapper elements currently in the document, in document order
  hasSearchInput, \* whether the page holds a [data-filter-live-search] element
  tagListeners,   \* per wrapper element: the wrapperIndex closed over by each click listener, in registration order
  closeListeners, \* per wrapper element: the wrapperIndex closed over by each listener of its close button
  timeouts,       \* one entry per debounce closure: the arguments of its pending timer call, <<>> when none is pending
  initialized,    \* the bootstrap flag
  readyState,     \* document.readyState as seen by the script: "loading" or "complete"
  initTimers,     \* number of pending setTimeout(init, 100) calls
  autoInits,      \* number of init() runs started by a bootstrap timer
  reinits,        \* number of reinit() calls made
  hostSteps,      \* number of changes the host page has made
  detail,         \* the detail of the most recent 'filterApplied' event: <<>> or <<payload>>
  lastOp,         \* the most recent step: the handler that ran and what it did, or the host's change
  scn,            \* progress through the three-step scenario trace
  burst,          \* number of debounced executions in a row since the last text-change event
  run,            \* the successive identical selectTag calls so far (toggle specification only)
  probe           \* the text under normalization (normalizer specification only)

vars == <<state, display, docItems, docWrappers, hasSearchInput, tagListeners,
          closeListeners, timeouts, initialized, readyState, initTimers,
          autoInits, reinits, hostSteps, detail, lastOp, scn, burst, run, probe>>

----------------------------------------------------------------------------
(* Bounds of the model *)

MaxTextLen == 3
MaxReinits == 1
MaxHostSteps == 1

----------------------------------------------------------------------------
(* Text *)

Range(s) == {s[i] : i \in DOMAIN s}

UpperChars == <<"A","B","C","D","E","F","G","L","R","U","W","E_acute">>
LowerChars == <<"a","b","c","d","e","f","g","l","r","u","w","e_acute">>

\* String.prototype.toLowerCase on one character
LowerChar(c) ==
  IF \E i \in DOMAIN UpperChars : UpperChars[i] = c
  THEN LowerChars[CHOOSE i \in DOMAIN UpperChars : UpperChars[i] = c]
  ELSE c

toLowerCase(text) == [i \in DOMAIN text |-> LowerChar(text[i])]

\* canonical decomposition of one character
Decompose(c) ==
  CASE c = "E_acute" -> <<"E", "acute">>
    [] c = "e_acute" -> <<"e", "acute">>
    [] OTHER -> <<c>>

\* canonical combining class
CombiningClass(c) ==
  CASE c = "acute" -> 230
    [] c = "etnahta" -> 220
    [] c = "sheva" -> 10
    [] OTHER -> 0

RECURSIVE DecomposeAll(_)
DecomposeAll(text) ==
  IF text = <<>> THEN <<>>
  ELSE Decompose(Head(text)) \o DecomposeAll(Tail(text))

\* canonical ordering: exchange adjacent marks while a higher class precedes a lower non-zero one
RECURSIVE CanonicalOrder(_)
CanonicalOrder(text) ==
  LET bad == {i \in 1..(Len(text) - 1) :
                /\ CombiningClass(text[i + 1]) > 0
                /\ CombiningClass(text[i]) > CombiningClass(text[i + 1])}
  IN IF bad = {} THEN text
     ELSE LET i == CHOOSE j \in bad : \A k \in bad : j <= k
          IN CanonicalOrder([text EXCEPT ![i] = text[i + 1], ![i + 1] = text[i]])

\* String.prototype.normalize('NFD')
NFD(text) == CanonicalOrder(DecomposeAll(text))

\* the characters of the class [U+0300-U+036F]
InMarkRange(c) == c \in {"acute", "cgj"}

StripMarks(text) == SelectSeq(text, LAMBDA c : ~InMarkRange(c))

IsSpace(c) == c = " "

\* String.prototype.trim
RECURSIVE trim(_)
trim(text) ==
  IF text = <<>> THEN <<>>
  ELSE IF IsSpace(Head(text)) THEN trim(Tail(text))
  ELSE IF IsSpace(text[Len(text)]) THEN trim(SubSeq(text, 1, Len(text) - 1))
  ELSE text

\* a normalizer that does not fold case
normalizeTextNoLower(text) == trim(StripMarks(NFD(text)))

\* normalizeText(text)
normalizeText(text) == trim(StripMarks(NFD(toLowerCase(text))))

\* String.prototype.includes
includes(text, q) ==
  \E i \in 0..(Len(text) - Len(q)) : SubSeq(text, i + 1, i + Len(q)) = q

----------------------------------------------------------------------------
(* The host page: item elements and dropdown wrapper elements.  An element *)
(* keeps its identity, its content and its listeners while it is in or out *)
(* of the document.                                                        *)

Items == {"A", "B", "C", "D"}

\* document order of the item elements
ItemOrder == <<"A", "B", "C", "D">>

\* textContent of the [data-filter-source="live-search"] elements of an item
Fragments(item) ==
  CASE item = "A" -> << <<"B","l","u","e"," ","W","i","d","g","e","t">> >>
    [] item = "B" -> << <<"R","e","d"," ","W","i","d","g","e","t">> >>
    [] item = "C" -> << <<"B","l","u","e"," ","G","a","d","g","e","t">> >>
    [] item = "D" -> << <<"C","a","f","e_acute">>, <<"W","i","d","g","e","t"," ">> >>

\* data-filter-source-tag attributes of the [data-filter-source-tag] elements of an item
SourceTags(item) ==
  CASE item = "A" -> <<"blue">>
    [] item = "B" -> <<"red">>
    [] item = "C" -> <<"blue">>
    [] item = "D" -> <<"blue", "large">>

\* the dropdown whose values each source tag of an item is one of, as the page
\* author lays the item out: the attribute itself holds the slug alone
SourceTagFacet(item) ==
  CASE item = "A" -> <<"w0">>
    [] item = "B" -> <<"w0">>
    [] item = "C" -> <<"w0">>
    [] item = "D" -> <<"w0", "w1">>

Wrappers == {"w0", "w1"}

\* data-filter-dropdown-tag attributes of the tag elements inside a wrapper
TagsOf(wrapper) ==
  CASE wrapper = "w0" -> {"blue", "red"}
    [] wrapper = "w1" -> {"large", "red"}

\* whether the wrapper holds a [data-filter-dropdown="toggle-tag-close"] element
HasClose(wrapper) == wrapper = "w0"

Slugs == {"blue", "red", "large"}

\* values passed to setSearch
RawTerms == { <<>>, <<"w","i","d","g","e","t">>, <<" ","C","A","F","E">> }

\* values of the search input at its 'input' events
TypedTerms == { <<>>, <<" ","C","A","F","E">> }

\* normalizeText of every raw term, computed once
NormalizedTerms == [t \in RawTerms \cup TypedTerms |-> normalizeText(t)]

\* normalizeText(query) for a query or typed value
Normalized(t) == IF t \in DOMAIN NormalizedTerms THEN NormalizedTerms[t] ELSE normalizeText(t)

\* pages the script may be loaded into: the collection, the dropdown wrappers,
\* whether there is a search input, and document.readyState when the script runs
Pages ==
  { [items |-> {"A", "B", "C"}, wrappers |-> <<"w0">>, input |-> TRUE,
     ready |-> "complete"],
    [items |-> {"A", "B", "C", "D"}, wrappers |-> <<"w0", "w1">>, input |-> FALSE,
     ready |-> "loading"],
    [items |-> {}, wrappers |-> <<"w0">>, input |-> FALSE,
     ready |-> "complete"] }

\* the items the external renderer adds or removes after the page is loaded
LateItems == {"D"}

\* wrapper layouts of the page
WrapperLayouts == { <<"w0">>, <<"w0", "w1">> }

\* document.querySelectorAll(CONFIG.selectors.item), as an array
QueryItems == SelectSeq(ItemOrder, LAMBDA i : i \in docItems)

\* document.querySelectorAll(CONFIG.selectors.dropdownWrapper), as an array
QueryWrappers == docWrappers

----------------------------------------------------------------------------
(* Values of the script *)

\* a JavaScript property key or Map key: a number, or a string
Num(n) == [num |-> n, str |-> ""]
Str(s) == [num |-> -1, str |-> s]
NoKey == Str("")

\* facet identifiers a caller passes to selectTag
FacetKeys == {Num(0), Num(1), Str("length")}

Undefined == [kind |-> "undefined", el |-> "", n |-> 0]

\* array[key]: an element, the length, or undefined
ArrayGet(array, key) ==
  IF key.str = "length" THEN [kind |-> "number", el |-> "", n |-> Len(array)]
  ELSE IF key.str = "" /\ key.num >= 0 /\ key.num < Len(array)
       THEN [kind |-> "element", el |-> array[key.num + 1], n |-> 0]
  ELSE Undefined

\* !value
Falsy(value) == value.kind = "undefined" \/ (value.kind = "number" /\ value.n = 0)

\* Map.prototype.has on state.dropdownSelections, whose keys are the numbers init() set
MapHas(map, key) == key.str = "" /\ key.num \in DOMAIN map

\* the script's state after the IIFE has run (lines 56-61)
InitialState ==
  [searchQuery |-> <<>>,
   dropdownSelections |-> [k \in {} |-> {}],
   items |-> <<>>,
   dropdownWrappers |-> <<>>]

\* what a handler works on: the script's state, the elements' styles and listeners,
\* and what the handler has done so far
World ==
  [state |-> state,
   display |-> display,
   tagListeners |-> tagListeners,
   closeListeners |-> closeListeners,
   timeouts |-> timeouts,
   detail |-> detail,
   passes |-> 0,
   dispatched |-> 0,
   threw |-> FALSE]

----------------------------------------------------------------------------
(* Matching and the evaluation pass *)

\* normalizeText(element.textContent) of every searchable element of every item
NormalizedFragments ==
  [item \in Items |->
     [k \in DOMAIN Fragments(item) |-> normalizeText(Fragments(item)[k])]]

\* the loop of checkSearchFilter(item) for a non-empty query
SomeFragmentIncludes(item, query) ==
  \E k \in DOMAIN NormalizedFragments[item] :
    includes(NormalizedFragments[item][k], query)

\* the loop's result for the queries the raw terms normalize to, computed once
SearchTable ==
  [item \in Items |->
     [query \in {normalizeText(t) : t \in RawTerms} |-> SomeFragmentIncludes(item, query)]]

\* checkSearchFilter(item) against the search query of st
checkSearchFilter(item, st) ==
  IF st.searchQuery = <<>> THEN TRUE
  ELSE IF st.searchQuery \in DOMAIN SearchTable[item]
       THEN SearchTable[item][st.searchQuery]
       ELSE SomeFragmentIncludes(item, st.searchQuery)

\* a facet predicate that lets an item pass when any one facet matches
checkDropdownFiltersAny(item, st) ==
  \/ \A idx \in DOMAIN st.dropdownSelections : st.dropdownSelections[idx] = {}
  \/ \E idx \in DOMAIN st.dropdownSelections :
       \E slug \in st.dropdownSelections[idx] : slug \in Range(SourceTags(item))

\* checkDropdownFilters(item): the loop returns false at the first facet that
\* has a selection the item does not carry, true when no facet does
checkDropdownFilters(item, st) ==
  \A idx \in DOMAIN st.dropdownSelections :
    LET selections == st.dropdownSelections[idx]
    IN \/ selections = {}
       \/ /\ Len(SourceTags(item)) # 0
          /\ \E slug \in selections : slug \in Range(SourceTags(item))

shouldShow(item, st) == checkSearchFilter(item, st) /\ checkDropdownFilters(item, st)

\* state.items.filter(item => item.style.display !== 'none').length
VisibleCount(items, disp) == Cardinality({k \in DOMAIN items : disp[items[k]] # "none"})

\* the detail of the 'filterApplied' event
Payload(st, disp) ==
  [searchQuery |-> st.searchQuery,
   dropdownSelections |-> st.dropdownSelections,
   visibleCount |-> VisibleCount(st.items, disp)]

\* the styles after the forEach of applyFilters
Restyle(w) ==
  [i \in Items |->
     IF i \in Range(w.state.items)
     THEN (IF shouldShow(i, w.state) THEN "" ELSE "none")
     ELSE w.display[i]]

\* an evaluation pass that returns early, without the event, on an empty item list
applyFiltersSkipEmpty(w) ==
  IF w.state.items = <<>> THEN [w EXCEPT !.passes = @ + 1]
  ELSE [w EXCEPT !.display = Restyle(w),
                 !.passes = @ + 1,
                 !.dispatched = @ + 1,
                 !.detail = << Payload(w.state, Restyle(w)) >>]

\* applyFilters(): restyle every managed item, then dispatch 'filterApplied'
applyFilters(w) ==
  LET restyled == Restyle(w)
  IN [w EXCEPT !.display = restyled,
               !.passes = @ + 1,
               !.dispatched = @ + 1,
               !.detail = << Payload(w.state, restyled) >>]

----------------------------------------------------------------------------
(* Facet selection *)

\* a toggle that adds the slug without clearing the facet first
toggleDropdownSelectionMulti(w, wrapperIndex, slug) ==
  IF ~MapHas(w.state.dropdownSelections, wrapperIndex) THEN w
  ELSE LET selections == w.state.dropdownSelections[wrapperIndex.num]
       IN applyFilters([w EXCEPT !.state.dropdownSelections[wrapperIndex.num] =
                          IF slug \in selections THEN selections \ {slug}
                          ELSE selections \cup {slug}])

\* a toggle that never deselects
toggleDropdownSelectionSticky(w, wrapperIndex, slug) ==
  IF ~MapHas(w.state.dropdownSelections, wrapperIndex) THEN w
  ELSE applyFilters([w EXCEPT !.state.dropdownSelections[wrapperIndex.num] = {slug}])

\* toggleDropdownSelection(wrapperIndex, slug, tagElement, wrapper)
toggleDropdownSelection(w, wrapperIndex, slug) ==
  IF ~MapHas(w.state.dropdownSelections, wrapperIndex) THEN w
  ELSE LET selections == w.state.dropdownSelections[wrapperIndex.num]
       IN applyFilters([w EXCEPT !.state.dropdownSelections[wrapperIndex.num] =
                          IF slug \in selections THEN selections \ {slug}
                          ELSE {slug}])

\* the click listeners of one wrapper, run in registration order on a tag element
RECURSIVE RunTagListeners(_, _, _)
RunTagListeners(w, indexes, slug) ==
  IF indexes = <<>> THEN w
  ELSE RunTagListeners(toggleDropdownSelection(w, Num(Head(indexes)), slug),
                       Tail(indexes), slug)

\* the listener of a close button: clear the facet, evaluate
CloseListener(w, wrapperIndex) ==
  applyFilters([w EXCEPT !.state.dropdownSelections[wrapperIndex] = {}])

----------------------------------------------------------------------------
(* Initialization *)

\* the index of a wrapper in state.dropdownWrappers
IndexIn(wrappers, wrapper) == (CHOOSE k \in DOMAIN wrappers : wrappers[k] = wrapper) - 1

\* setupLiveSearch(): with a search input, one more debounce closure, one more
\* 'input' listener and one more 'keydown' listener
setupLiveSearch(w) ==
  IF ~hasSearchInput THEN w
  ELSE [w EXCEPT !.timeouts = Append(@, <<>>)]

\* setupDropdowns(): one more click listener on every wrapper of state.dropdownWrappers
setupDropdowns(w) ==
  [w EXCEPT !.tagListeners =
     [el \in Wrappers |->
        IF el \in Range(w.state.dropdownWrappers)
        THEN Append(w.tagListeners[el], IndexIn(w.state.dropdownWrappers, el))
        ELSE w.tagListeners[el]]]

\* setupToggleTagClose(): one more click listener on every close button
setupToggleTagClose(w) ==
  [w EXCEPT !.closeListeners =
     [el \in Wrappers |->
        IF el \in Range(w.state.dropdownWrappers) /\ HasClose(el)
        THEN Append(w.closeListeners[el], IndexIn(w.state.dropdownWrappers, el))
        ELSE w.closeListeners[el]]]

\* the Map after init()'s forEach: a new Set for every current index, other keys kept
FreshSelections(map, n) ==
  [k \in (DOMAIN map) \cup (0..(n - 1)) |-> IF k < n THEN {} ELSE map[k]]

\* init()
init(w) ==
  LET w1 == [w EXCEPT !.state.items = QueryItems,
                      !.state.dropdownWrappers = QueryWrappers,
                      !.state.dropdownSelections =
                         FreshSelections(w.state.dropdownSelections, Len(QueryWrappers))]
  IN applyFilters(setupToggleTagClose(setupDropdowns(setupLiveSearch(w1))))

----------------------------------------------------------------------------
(* Debounce *)

\* executedFunction(...args) of debounce(): clearTimeout(timeout), then setTimeout(later, wait)
executedFunction(pending, value) == <<value>>

\* the callback handed to debounce() by setupLiveSearch
debouncedSearch(w, value) ==
  applyFilters([w EXCEPT !.state.searchQuery = Normalized(value)])

\* the keydown listeners of the search input, one per init(), on Escape
RECURSIVE RunEscapeListeners(_, _)
RunEscapeListeners(w, n) ==
  IF n = 0 THEN w
  ELSE RunEscapeListeners(applyFilters([w EXCEPT !.state.searchQuery = <<>>]), n - 1)

----------------------------------------------------------------------------
(* window.WebflowFilter *)

\* the forEach of reset(): clear the Set of every index of state.dropdownWrappers
ClearedSelections(map, n) ==
  [k \in DOMAIN map |-> IF k < n THEN {} ELSE map[k]]

\* WebflowFilter.reset()
reset(w) ==
  applyFilters([w EXCEPT
     !.state.searchQuery = IF hasSearchInput THEN <<>> ELSE @,
     !.state.dropdownSelections = ClearedSelections(@, Len(w.state.dropdownWrappers))])

\* WebflowFilter.getState()
getState(st, disp) ==
  [searchQuery |-> st.searchQuery,
   dropdownSelections |-> st.dropdownSelections,
   visibleItems |-> VisibleCount(st.items, disp),
   totalItems |-> Len(st.items)]

\* WebflowFilter.setSearch(query)
setSearch(w, query) ==
  applyFilters([w EXCEPT !.state.searchQuery = Normalized(query)])

\* WebflowFilter.selectTag(wrapperIndex, slug); a truthy value that is no element
\* has no querySelector method, and the call throws a TypeError
selectTag(w, wrapperIndex, slug) ==
  LET wrapper == ArrayGet(w.state.dropdownWrappers, wrapperIndex)
  IN IF Falsy(wrapper) THEN w
     ELSE IF wrapper.kind # "element" THEN [w EXCEPT !.threw = TRUE]
     ELSE IF slug \in TagsOf(wrapper.el)
          THEN toggleDropdownSelection(w, wrapperIndex, slug)
          ELSE w

----------------------------------------------------------------------------
(* Collection synchronisation *)

\* a 'renderitems' handler that evaluates the item list it already has
renderitemsStale(w) == applyFilters(w)

\* the 'renderitems' handler: re-enumerate, evaluate
renderitems(w) == applyFilters([w EXCEPT !.state.items = QueryItems])

\* an interval callback that never re-enumerates
pollIdle(w) == w

\* the setInterval callback: re-enumerate and evaluate when the cardinality differs
poll(w) ==
  IF Cardinality(docItems) # Len(w.state.items)
  THEN applyFilters([w EXCEPT !.state.items = QueryItems])
  ELSE w

----------------------------------------------------------------------------
(* State machine *)

pageVars == <<docItems, docWrappers, hasSearchInput>>
bootVars == <<initialized, readyState, initTimers, autoInits>>
specVars == <<run, probe>>

sWidget == <<"w","i","d","g","e","t">>

IdleProbe == [pc |-> "idle", input |-> <<>>, once |-> <<>>, twice |-> <<>>]
IdleRun == [key |-> NoKey, slug |-> "", n |-> 0, was |-> FALSE, was0 |-> FALSE]

\* a step that ran no handler of the script
Step(name) ==
  [op |-> name, threw |-> FALSE, passes |-> 0, dispatched |-> 0, resnap |-> FALSE]

\* the handler's effects become the state; lastOp records the handler, whether it
\* threw, its evaluation passes and events, and whether it changed the managed items
Commit(w, name) ==
  \E r \in {w} :
    /\ state' = r.state
    /\ display' = r.display
    /\ tagListeners' = r.tagListeners
    /\ closeListeners' = r.closeListeners
    /\ timeouts' = r.timeouts
    /\ detail' = r.detail
    /\ lastOp' = [op |-> name, threw |-> r.threw, passes |-> r.passes,
                  dispatched |-> r.dispatched,
                  resnap |-> (r.state.items # state.items)]

\* whether slug is selected in the facet a key names
Selected(key, slug) ==
  MapHas(state.dropdownSelections, key) /\ slug \in state.dropdownSelections[key.num]

\* the page and the script as the scenario trace starts: items A, B, C and one facet
ScenarioStart ==
  /\ state.items = <<"A", "B", "C">>
  /\ state.dropdownWrappers = <<"w0">>
  /\ DOMAIN state.dropdownSelections = {0}
  /\ state.dropdownSelections[0] = {}

\* the script has been loaded into a page: bootstrap() has run if the document
\* was already parsed
Loaded(page, ready) ==
  /\ state = InitialState
  /\ display = [i \in Items |-> ""]
  /\ docItems = page.items
  /\ docWrappers = page.wrappers
  /\ hasSearchInput = page.input
  /\ tagListeners = [el \in Wrappers |-> <<>>]
  /\ closeListeners = [el \in Wrappers |-> <<>>]
  /\ timeouts = <<>>
  /\ readyState = ready
  /\ initialized = (ready # "loading")
  /\ initTimers = IF ready # "loading" THEN 1 ELSE 0
  /\ autoInits = 0
  /\ reinits = 0
  /\ hostSteps = 0
  /\ detail = <<>>
  /\ lastOp = Step("load")
  /\ scn = 0
  /\ burst = 0

Init ==
  /\ \E page \in Pages : Loaded(page, page.ready)
  /\ run = IdleRun
  /\ probe = IdleProbe

\* a DOMContentLoaded listener that schedules init() without reading the flag
DOMContentLoadedUnguarded ==
  /\ readyState = "loading"
  /\ readyState' = "complete"
  /\ initialized' = TRUE
  /\ initTimers' = initTimers + 1
  /\ UNCHANGED <<state, display, pageVars, tagListeners, closeListeners, timeouts,
                 autoInits, reinits, hostSteps, detail, lastOp, scn, burst, specVars>>

\* bootstrap(), as the DOMContentLoaded listener
DOMContentLoaded ==
  /\ readyState = "loading"
  /\ readyState' = "complete"
  /\ IF initialized
     THEN UNCHANGED <<initialized, initTimers>>
     ELSE initialized' = TRUE /\ initTimers' = initTimers + 1
  /\ UNCHANGED <<state, display, pageVars, tagListeners, closeListeners, timeouts,
                 autoInits, reinits, hostSteps, detail, lastOp, scn, burst, specVars>>

\* the callback pushed on window.Webflow
WebflowReady ==
  /\ IF initialized
     THEN UNCHANGED <<initialized, initTimers>>
     ELSE initialized' = TRUE /\ initTimers' = initTimers + 1
  /\ UNCHANGED <<state, display, pageVars, tagListeners, closeListeners, timeouts,
                 readyState, autoInits, reinits, hostSteps, detail, lastOp, scn,
                 burst, specVars>>

\* a setTimeout(init, 100) of the bootstrap comes due
InitTimerFire ==
  /\ initTimers > 0
  /\ initTimers' = initTimers - 1
  /\ autoInits' = autoInits + 1
  /\ Commit(init(World), "init")
  /\ scn' = 0
  /\ burst' = 0
  /\ UNCHANGED <<pageVars, initialized, readyState, reinits, hostSteps, specVars>>

\* WebflowFilter.reinit()
Reinit ==
  /\ reinits < MaxReinits
  /\ reinits' = reinits + 1
  /\ Commit(init(World), "reinit")
  /\ scn' = 0
  /\ burst' = 0
  /\ UNCHANGED <<pageVars, bootVars, hostSteps, specVars>>

\* WebflowFilter.reset()
Reset ==
  /\ Commit(reset(World), "reset")
  /\ scn' = 0
  /\ burst' = 0
  /\ UNCHANGED <<pageVars, bootVars, reinits, hostSteps, specVars>>

\* WebflowFilter.setSearch(query)
SetSearch(query) ==
  /\ Commit(setSearch(World, query), "setSearch")
  /\ scn' = IF query = sWidget /\ ScenarioStart THEN 1 ELSE 0
  /\ burst' = 0
  /\ UNCHANGED <<pageVars, bootVars, reinits, hostSteps, specVars>>

\* a call of WebflowFilter.selectTag(wrapperIndex, slug)
SelectTagCall(wrapperIndex, slug) ==
  /\ Commit(selectTag(World, wrapperIndex, slug), "selectTag")
  /\ scn' = IF wrapperIndex = Num(0) /\ slug = "blue" /\ scn \in {1, 2}
            THEN scn + 1 ELSE 0
  /\ burst' = 0
  /\ UNCHANGED <<pageVars, bootVars, reinits, hostSteps>>

\* WebflowFilter.selectTag(wrapperIndex, slug)
SelectTag(wrapperIndex, slug) ==
  /\ SelectTagCall(wrapperIndex, slug)
  /\ UNCHANGED specVars

\* the user clicks the tag element `slug` of a wrapper in the document
TagClick(el, slug) ==
  /\ el \in Range(docWrappers)
  /\ slug \in TagsOf(el)
  /\ tagListeners[el] # <<>>
  /\ Commit(RunTagListeners(World, tagListeners[el], slug), "tagClick")
  /\ scn' = 0
  /\ burst' = 0
  /\ UNCHANGED <<pageVars, bootVars, reinits, hostSteps, specVars>>

\* the user clicks the close button of a wrapper in the document: the first
\* listener stops the immediate propagation, so it alone runs
CloseClick(el) ==
  /\ el \in Range(docWrappers)
  /\ HasClose(el)
  /\ closeListeners[el] # <<>>
  /\ Commit(CloseListener(World, Head(closeListeners[el])), "closeClick")
  /\ scn' = 0
  /\ burst' = 0
  /\ UNCHANGED <<pageVars, bootVars, reinits, hostSteps, specVars>>

\* an 'input' event of the search input: every debounced function is called
SearchInput(value) ==
  /\ hasSearchInput
  /\ timeouts # <<>>
  /\ Commit([World EXCEPT !.timeouts =
               [k \in DOMAIN timeouts |-> executedFunction(timeouts[k], value)]],
            "input")
  /\ burst' = 0
  /\ scn' = 0
  /\ UNCHANGED <<pageVars, bootVars, reinits, hostSteps, specVars>>

\* the oldest pending timeout of the debounce closures comes due: later() runs
DebounceFire ==
  /\ \E k \in DOMAIN timeouts :
       /\ timeouts[k] # <<>>
       /\ \A j \in DOMAIN timeouts : j < k => timeouts[j] = <<>>
       /\ Commit(debouncedSearch([World EXCEPT !.timeouts[k] = Tail(@)],
                                 Head(timeouts[k])),
                 "debounce")
  /\ burst' = burst + 1
  /\ scn' = 0
  /\ UNCHANGED <<pageVars, bootVars, reinits, hostSteps, specVars>>

\* a 'keydown' event with key Escape on the search input
EscapeKey ==
  /\ hasSearchInput
  /\ timeouts # <<>>
  /\ Commit(RunEscapeListeners(World, Len(timeouts)), "escape")
  /\ scn' = 0
  /\ burst' = 0
  /\ UNCHANGED <<pageVars, bootVars, reinits, hostSteps, specVars>>

\* the external renderer emits 'renderitems'
RenderItems ==
  /\ Commit(renderitems(World), "renderitems")
  /\ scn' = 0
  /\ burst' = 0
  /\ UNCHANGED <<pageVars, bootVars, reinits, hostSteps, specVars>>

\* the 1000 ms interval elapses
PollTick ==
  /\ Commit(poll(World), "poll")
  /\ scn' = 0
  /\ burst' = 0
  /\ UNCHANGED <<pageVars, bootVars, reinits, hostSteps, specVars>>

\* what every change of the host page leaves alone
HostFrame ==
  /\ hostSteps < MaxHostSteps
  /\ hostSteps' = hostSteps + 1
  /\ lastOp' = Step("host")
  /\ scn' = 0
  /\ burst' = 0
  /\ UNCHANGED <<state, display, tagListeners, closeListeners, timeouts, bootVars,
                 reinits, detail, specVars, hasSearchInput>>

\* the host page renders an item into the collection
HostAddItem(item) ==
  /\ item \notin docItems
  /\ docItems' = docItems \cup {item}
  /\ UNCHANGED docWrappers
  /\ HostFrame

\* the host page removes an item from the collection
HostRemoveItem(item) ==
  /\ item \in docItems
  /\ docItems' = docItems \ {item}
  /\ UNCHANGED docWrappers
  /\ HostFrame

\* the host page rebuilds its dropdown wrappers
HostRebuild(layout) ==
  /\ layout # docWrappers
  /\ docWrappers' = layout
  /\ UNCHANGED docItems
  /\ HostFrame

Next ==
  \/ DOMContentLoaded
  \/ WebflowReady
  \/ InitTimerFire
  \/ Reinit
  \/ Reset
  \/ \E query \in RawTerms : SetSearch(query)
  \/ \E wrapperIndex \in FacetKeys, slug \in Slugs : SelectTag(wrapperIndex, slug)
  \/ \E el \in Wrappers, slug \in Slugs : TagClick(el, slug)
  \/ \E el \in Wrappers : CloseClick(el)
  \/ \E value \in TypedTerms : SearchInput(value)
  \/ DebounceFire
  \/ EscapeKey
  \/ RenderItems
  \/ PollTick
  \/ \E item \in LateItems : HostAddItem(item)
  \/ \E item \in LateItems : HostRemoveItem(item)
  \/ \E layout \in WrapperLayouts : HostRebuild(layout)

Spec == Init /\ [][Next]_vars

----------------------------------------------------------------------------
(* The normalizer alone: normalizeText applied once, then to its own result *)

NormAlphabet == {"A", "a", "e_acute", "acute", "cgj", "etnahta", "sheva", " "}

Texts(n) == UNION {[1..k -> NormAlphabet] : k \in 0..n}

NormInit ==
  /\ Loaded([items |-> {}, wrappers |-> <<"w0">>, input |-> FALSE], "complete")
  /\ run = IdleRun
  /\ probe \in {[pc |-> "start", input |-> t, once |-> <<>>, twice |-> <<>>] :
                  t \in Texts(MaxTextLen)}

NormalizeOnce ==
  /\ probe.pc = "start"
  /\ probe' = [probe EXCEPT !.pc = "once", !.once = normalizeText(probe.input)]
  /\ UNCHANGED <<state, display, pageVars, tagListeners, closeListeners, timeouts,
                 bootVars, reinits, hostSteps, detail, lastOp, scn, burst, run>>

NormalizeTwice ==
  /\ probe.pc = "once"
  /\ probe' = [probe EXCEPT !.pc = "twice", !.twice = normalizeText(probe.once)]
  /\ UNCHANGED <<state, display, pageVars, tagListeners, closeListeners, timeouts,
                 bootVars, reinits, hostSteps, detail, lastOp, scn, burst, run>>

NormNext == NormalizeOnce \/ NormalizeTwice

SpecNorm == NormInit /\ [][NormNext]_vars

----------------------------------------------------------------------------
(* Facet selection alone: selectTag called from any filter state of the    *)
(* two-facet page after init(), with the run of identical calls recorded   *)

\* the selections a facet of the two-facet page can hold
FacetChoices(wrapper) == {{}} \cup {{slug} : slug \in TagsOf(wrapper)}

ToggleInit ==
  \E query \in {normalizeText(t) : t \in RawTerms},
     s0 \in FacetChoices("w0"), s1 \in FacetChoices("w1") :
    LET st == [searchQuery |-> query,
               dropdownSelections |-> [k \in {0, 1} |-> IF k = 0 THEN s0 ELSE s1],
               items |-> <<"A", "B", "C", "D">>,
               dropdownWrappers |-> <<"w0", "w1">>]
        disp == [i \in Items |-> IF shouldShow(i, st) THEN "" ELSE "none"]
    IN /\ state = st
       /\ display = disp
       /\ docItems = {"A", "B", "C", "D"}
       /\ docWrappers = <<"w0", "w1">>
       /\ hasSearchInput = FALSE
       /\ tagListeners = [el \in Wrappers |-> IF el = "w0" THEN <<0>> ELSE <<1>>]
       /\ closeListeners = [el \in Wrappers |-> IF el = "w0" THEN <<0>> ELSE <<>>]
       /\ timeouts = <<>>
       /\ readyState = "complete"
       /\ initialized = TRUE
       /\ initTimers = 0
       /\ autoInits = 1
       /\ reinits = 0
       /\ hostSteps = 0
       /\ detail = << Payload(st, disp) >>
       /\ lastOp = [op |-> "setSearch", threw |-> FALSE, passes |-> 1,
                    dispatched |-> 1, resnap |-> FALSE]
       /\ scn = 0
       /\ burst = 0
       /\ run = IdleRun
       /\ probe = IdleProbe

\* selectTag, recording whether the slug was selected before this call (was) and
\* before the previous identical call (was0), and the length of the run (up to 2)
ToggleSelectTag(wrapperIndex, slug) ==
  LET again == run.n > 0 /\ run.key = wrapperIndex /\ run.slug = slug
  IN /\ SelectTagCall(wrapperIndex, slug)
     /\ run' = [key |-> wrapperIndex, slug |-> slug,
                n |-> IF again THEN 2 ELSE 1,
                was |-> Selected(wrapperIndex, slug),
                was0 |-> again /\ run.was]
     /\ UNCHANGED probe

ToggleNext == \E wrapperIndex \in FacetKeys, slug \in Slugs : ToggleSelectTag(wrapperIndex, slug)

SpecToggle == ToggleInit /\ [][ToggleNext]_vars

----------------------------------------------------------------------------
(* The reconciliation poll alone: the renderer changes the collection       *)
(* without a 'renderitems' notification, the user does nothing, and the     *)
(* 1000 ms interval keeps elapsing                                          *)

\* the items the renderer adds, removes or replaces
PollLateItems == {"C", "D"}

PollInit ==
  \E query \in {normalizeText(t) : t \in RawTerms},
     s0 \in FacetChoices("w0"), s1 \in FacetChoices("w1"),
     docs \in {{"A", "B", "C"}, {"A", "B", "C", "D"}} :
    LET st == [searchQuery |-> query,
               dropdownSelections |-> [k \in {0, 1} |-> IF k = 0 THEN s0 ELSE s1],
               items |-> SelectSeq(ItemOrder, LAMBDA i : i \in docs),
               dropdownWrappers |-> <<"w0", "w1">>]
        disp == [i \in Items |-> IF i \in docs /\ ~shouldShow(i, st) THEN "none" ELSE ""]
    IN /\ state = st
       /\ display = disp
       /\ docItems = docs
       /\ docWrappers = <<"w0", "w1">>
       /\ hasSearchInput = FALSE
       /\ tagListeners = [el \in Wrappers |-> IF el = "w0" THEN <<0>> ELSE <<1>>]
       /\ closeListeners = [el \in Wrappers |-> IF el = "w0" THEN <<0>> ELSE <<>>]
       /\ timeouts = <<>>
       /\ readyState = "complete"
       /\ initialized = TRUE
       /\ initTimers = 0
       /\ autoInits = 1
       /\ reinits = 0
       /\ hostSteps = 0
       /\ detail = << Payload(st, disp) >>
       /\ lastOp = [op |-> "setSearch", threw |-> FALSE, passes |-> 1,
                    dispatched |-> 1, resnap |-> FALSE]
       /\ scn = 0
       /\ burst = 0
       /\ run = IdleRun
       /\ probe = IdleProbe

\* the renderer replaces one item of the collection by another
HostReplaceItem(old, new) ==
  /\ old \in docItems
  /\ new \notin docItems
  /\ docItems' = (docItems \ {old}) \cup {new}
  /\ UNCHANGED docWrappers
  /\ HostFrame

PollNext ==
  \/ \E item \in PollLateItems : HostAddItem(item)
  \/ \E item \in PollLateItems : HostRemoveItem(item)
  \/ \E old \in PollLateItems, new \in PollLateItems : HostReplaceItem(old, new)
  \/ PollTick

\* setInterval keeps calling its callback
SpecPoll == PollInit /\ [][PollNext]_vars /\ WF_vars(PollTick)

----------------------------------------------------------------------------
(* Facet controls across a rebuild: the page reorders its dropdown wrappers, *)
(* keeping the elements, and reinit() discovers them again                   *)

\* wrapper layouts of the rebuilt page
RebuildLayouts == { <<"w0", "w1">>, <<"w1", "w0">> }

RebuildNext ==
  \/ \E layout \in RebuildLayouts : HostRebuild(layout)
  \/ Reinit
  \/ \E el \in Wrappers, slug \in Slugs : TagClick(el, slug)
  \/ \E el \in Wrappers : CloseClick(el)
  \/ \E wrapperIndex \in FacetKeys, slug \in Slugs : SelectTag(wrapperIndex, slug)

SpecRebuild == ToggleInit /\ [][RebuildNext]_vars

----------------------------------------------------------------------------
(* The automatic bootstrap: the script is loaded before or after the        *)
(* document is parsed, the triggers arrive in any order, and a scheduled    *)
(* setTimeout(init, 100) comes due                                          *)

BootInit ==
  /\ \E page \in Pages, ready \in {"loading", "complete"} : Loaded(page, ready)
  /\ run = IdleRun
  /\ probe = IdleProbe

BootNext ==
  \/ DOMContentLoaded
  \/ WebflowReady
  \/ InitTimerFire
  \/ Reinit
  \/ \E query \in RawTerms : SetSearch(query)

\* a timer that has been set comes due
SpecBoot == BootInit /\ [][BootNext]_vars /\ WF_vars(InitTimerFire)

----------------------------------------------------------------------------
(* Claims *)

\* the managed items that are visible
Visible == {i \in Range(state.items) : display[i] # "none"}

\* the search predicate as the specification words it
SearchPasses(i) ==
  \/ state.searchQuery = <<>>
  \/ \E k \in DOMAIN Fragments(i) :
       includes(NormalizedFragments[i][k], state.searchQuery)

\* the facet predicate as the specification words it
FacetsPass(i) ==
  \A f \in DOMAIN state.dropdownSelections :
    state.dropdownSelections[f] # {} =>
      \E k \in DOMAIN SourceTags(i) : state.dropdownSelections[f] = {SourceTags(i)[k]}

\* a key that is the index of a discovered facet control
KnownFacet(key) ==
  key.str = "" /\ key.num >= 0 /\ key.num < Len(state.dropdownWrappers)

\* a key and a slug that name a tag element of a discovered facet control
KnownTag(key, slug) ==
  KnownFacet(key) /\ slug \in TagsOf(state.dropdownWrappers[key.num + 1])

\* C1: in every reachable state every facet's selection set holds at most one value
C1_FacetExclusivity ==
  \A f \in DOMAIN state.dropdownSelections :
    Cardinality(state.dropdownSelections[f]) <= 1

\* a selection made after reinit(), with both facets holding one value
C1_Witness ==
  /\ reinits > 0
  /\ lastOp.op \in {"tagClick", "selectTag"}
  /\ DOMAIN state.dropdownSelections = {0, 1}
  /\ state.dropdownSelections[0] = {"red"}
  /\ state.dropdownSelections[1] = {"large"}

\* C2: after every evaluation pass a managed item is visible iff the search
\* predicate passes and every facet with a selection is matched by one of its tags
C2_VisibleIffMatches ==
  lastOp.passes > 0 =>
    \A i \in Range(state.items) :
      (display[i] # "none") <=> (SearchPasses(i) /\ FacetsPass(i))

\* two facets with distinct selections and a search term: D carries both values and
\* is visible, A carries only one and is hidden
C2_Witness ==
  /\ lastOp.passes > 0
  /\ state.searchQuery = sWidget
  /\ DOMAIN state.dropdownSelections = {0, 1}
  /\ state.dropdownSelections[0] = {"blue"}
  /\ state.dropdownSelections[1] = {"large"}
  /\ {"A", "D"} \subseteq Range(state.items)
  /\ display["D"] = ""
  /\ display["A"] = "none"

\* C3: on the page with items A, B, C and one facet, setSearch("widget") leaves
\* {A, B} visible, selectTag(0, "blue") then leaves {A}, and a second
\* selectTag(0, "blue") clears the facet and leaves {A, B}, the search term kept
C3_Scenario ==
  /\ scn = 1 => Visible = {"A", "B"}
  /\ scn = 2 => Visible = {"A"}
  /\ scn = 3 => /\ state.dropdownSelections[0] = {}
                /\ Visible = {"A", "B"}
                /\ state.searchQuery = sWidget

\* the third step of the scenario has run
C3_Witness == scn = 3 /\ lastOp.op = "selectTag" /\ lastOp.passes = 1

\* C4: selectTag(f, v) on a tag of a known facet leaves f empty if v was selected
\* and holding exactly v otherwise (whatever f held); two such calls in succession
\* leave f empty if v was not selected before them, and holding v if it was
C4_ToggleOff ==
  (run.n > 0 /\ KnownTag(run.key, run.slug)) =>
     /\ state.dropdownSelections[run.key.num] = IF run.was THEN {} ELSE {run.slug}
     /\ run.n = 2 =>
          state.dropdownSelections[run.key.num] = IF run.was0 THEN {run.slug} ELSE {}

\* two successive calls on a value that was not selected have emptied the facet
C4_Witness ==
  /\ run.n = 2
  /\ KnownTag(run.key, run.slug)
  /\ ~run.was0
  /\ state.dropdownSelections[run.key.num] = {}

\* C5: right after reset(), getState() reports an empty search term, every facet
\* empty and visibleItems equal to totalItems
C5_ResetClearsEverything ==
  lastOp.op = "reset" =>
    LET got == getState(state, display)
    IN /\ got.searchQuery = <<>>
       /\ \A f \in DOMAIN got.dropdownSelections : got.dropdownSelections[f] = {}
       /\ got.visibleItems = got.totalItems

\* C6: right after the 'renderitems' handler the managed items are the collection's
\* current members, every member that matches the filters is visible, and the
\* event's visibleCount counts the matching members
C6_PushIncludesNewItem ==
  lastOp.op = "renderitems" =>
    /\ Range(state.items) = docItems
    /\ \A i \in docItems : (SearchPasses(i) /\ FacetsPass(i)) => display[i] = ""
    /\ detail # <<>>
    /\ detail[1].visibleCount =
         Cardinality({i \in docItems : SearchPasses(i) /\ FacetsPass(i)})

\* the handler has picked up the late item D, which matches the search term
C6_Witness ==
  /\ lastOp.op = "renderitems"
  /\ lastOp.resnap
  /\ state.searchQuery = sWidget
  /\ "D" \in Range(state.items)
  /\ display["D"] = ""
  /\ display["C"] = "none"
  /\ detail[1].visibleCount = 3

\* C7: an 'input' event leaves every debounced function with that event's value as
\* its only pending call; a debounced execution writes the normalized pending value,
\* and it is the only execution since the last 'input' event
C7_Debounce ==
  [][ /\ \A value \in TypedTerms :
           SearchInput(value) => \A k \in DOMAIN timeouts' : timeouts'[k] = <<value>>
      /\ DebounceFire =>
           /\ \E k \in DOMAIN timeouts :
                /\ timeouts[k] # <<>>
                /\ state'.searchQuery = normalizeText(Head(timeouts[k]))
           /\ burst' <= 1 ]_vars

\* C8: every evaluation pass of a handler dispatches one 'filterApplied' event, and
\* the last event's detail is the current search term, the current selections and
\* the number of visible managed items, 0 for an empty item list
C8_OneEventPerPass ==
  /\ lastOp.dispatched = lastOp.passes
  /\ lastOp.passes > 0 =>
       /\ detail = << [searchQuery |-> state.searchQuery,
                       dropdownSelections |-> state.dropdownSelections,
                       visibleCount |-> Cardinality(Visible)] >>
       /\ state.items = <<>> => detail[1].visibleCount = 0

\* an evaluation pass over an empty item list has dispatched its event
C8_Witness ==
  /\ lastOp.passes > 0
  /\ state.items = <<>>
  /\ detail # <<>>
  /\ state.searchQuery # <<>>

\* C9: selectTag with an identifier that names no known facet does not throw, runs
\* no evaluation pass and changes neither the filter state nor any visibility
C9_UnknownFacetNoop ==
  [][ \A wrapperIndex \in FacetKeys, slug \in Slugs :
        (SelectTag(wrapperIndex, slug) /\ ~KnownFacet(wrapperIndex)) =>
          /\ ~lastOp'.threw
          /\ lastOp'.passes = 0
          /\ lastOp'.dispatched = 0
          /\ UNCHANGED <<state, display, detail>> ]_vars

\* C10: normalizeText(normalizeText(s)) = normalizeText(s)
C10_Idempotent == probe.pc = "twice" => probe.twice = probe.once

\* the cardinality of the collection differs from that of the managed item list
Mismatch == Cardinality(docItems) # Len(state.items)

\* the managed items are the collection's current members and the visibility of
\* every member agrees with the filter state
PollSynced ==
  /\ state.items = QueryItems
  /\ \A i \in docItems : (display[i] # "none") <=> (SearchPasses(i) /\ FacetsPass(i))

\* C11: once the cardinality of the collection differs from that of the managed
\* items and the collection stays as it is, the poll eventually leaves the managed
\* items equal to the collection's members with their visibility evaluated; and a
\* poll tick that finds equal cardinalities changes nothing and runs no evaluation
C11_PollReconciles ==
  /\ \A n \in 0..MaxHostSteps :
       (Mismatch /\ hostSteps = n) ~> (PollSynced \/ hostSteps # n)
  /\ [][ (PollTick /\ ~Mismatch) =>
           (UNCHANGED <<state, display, detail>> /\ lastOp'.passes = 0) ]_vars

\* a poll tick has re-enumerated the collection after the renderer changed it
C11_Witness ==
  /\ hostSteps > 0
  /\ lastOp.op = "poll"
  /\ lastOp.resnap
  /\ lastOp.passes = 1
  /\ PollSynced

\* C12: after every poll tick the managed items are the collection's current
\* members and every member's visibility agrees with the filter state
C12_SelfHealing == [][ PollTick => PollSynced' ]_vars

\* C13: every evaluation pass runs over the collection's current members: once
\* init() has run, after a handler that ran a pass the managed items are what the
\* document holds
C13_FreshSnapshot ==
  (lastOp.passes > 0 /\ autoInits + reinits > 0) => state.items = QueryItems

\* C14: after every evaluation pass, a visible item carries, for every facet with a
\* selection, a source tag equal to the selected value that belongs to that facet
C14_FacetIsolation ==
  lastOp.passes > 0 =>
    \A i \in Range(state.items) :
      display[i] # "none" =>
        \A f \in DOMAIN state.dropdownSelections :
          (f < Len(state.dropdownWrappers) /\ state.dropdownSelections[f] # {}) =>
            \E k \in DOMAIN SourceTags(i) :
              /\ state.dropdownSelections[f] = {SourceTags(i)[k]}
              /\ SourceTagFacet(i)[k] = state.dropdownWrappers[f + 1]

\* every facet other than f keeps its selection, and the search term is kept
OtherFacetsKept(f) ==
  /\ state'.searchQuery = state.searchQuery
  /\ \A g \in DOMAIN state.dropdownSelections :
       g # f => state'.dropdownSelections[g] = state.dropdownSelections[g]

\* C15: a click on the close button of facet f's control empties f, keeps the search
\* term and every other facet's selection and runs one evaluation pass; a click on a
\* tag of facet f's control, and selectTag(f, slug), keep the search term and every
\* other facet's selection
C15_FacetClearFrame ==
  [][ /\ \A el \in Wrappers :
           (el \in Range(state.dropdownWrappers) /\ CloseClick(el)) =>
             /\ state'.dropdownSelections[IndexIn(state.dropdownWrappers, el)] = {}
             /\ OtherFacetsKept(IndexIn(state.dropdownWrappers, el))
             /\ lastOp'.passes = 1
      /\ \A el \in Wrappers, slug \in Slugs :
           (el \in Range(state.dropdownWrappers) /\ TagClick(el, slug)) =>
             OtherFacetsKept(IndexIn(state.dropdownWrappers, el))
      /\ \A wrapperIndex \in FacetKeys, slug \in Slugs :
           (KnownFacet(wrapperIndex) /\ SelectTag(wrapperIndex, slug)) =>
             OtherFacetsKept(wrapperIndex.num) ]_vars

\* C16: Escape and setSearch write the search term and evaluate at once, as reset()
\* does on a page with a search input; and a debounced execution that comes right
\* after one of them leaves the term they wrote
C16_ImmediateWriteWins ==
  [][ /\ EscapeKey => (state'.searchQuery = <<>> /\ lastOp'.passes >= 1)
      /\ \A query \in RawTerms :
           SetSearch(query) =>
             (state'.searchQuery = normalizeText(query) /\ lastOp'.passes = 1)
      /\ (Reset /\ hasSearchInput) =>
           (state'.searchQuery = <<>> /\ lastOp'.passes = 1)
      /\ (DebounceFire /\ lastOp.op \in {"escape", "setSearch", "reset"}) =>
           state'.searchQuery = state.searchQuery ]_vars

\* C17: while the page is as it was loaded, whatever the number of reinit() calls,
\* a click on an unselected tag of a facet leaves the facet holding that tag's
\* value after one evaluation pass, and a debounced execution is the only one since
\* the last text-change event
C17_ReinitKeepsHandlersSingle ==
  [][ hostSteps = 0 =>
        /\ \A el \in Wrappers, slug \in Slugs :
             ( /\ el \in Range(state.dropdownWrappers)
               /\ slug \notin state.dropdownSelections[IndexIn(state.dropdownWrappers, el)]
               /\ TagClick(el, slug) ) =>
               /\ state'.dropdownSelections[IndexIn(state.dropdownWrappers, el)] = {slug}
               /\ lastOp'.passes = 1
        /\ DebounceFire => burst' = 1 ]_vars

\* C18: right after reinit() the keys of state.dropdownSelections are the indexes of
\* the discovered wrappers, every facet is empty, and every managed item that
\* passes the search is visible
C18_ReinitRebuildsSelections ==
  lastOp.op = "reinit" =>
    /\ DOMAIN state.dropdownSelections = 0..(Len(state.dropdownWrappers) - 1)
    /\ \A f \in DOMAIN state.dropdownSelections : state.dropdownSelections[f] = {}
    /\ \A i \in Range(state.items) : SearchPasses(i) => display[i] = ""

\* C19: the bootstrap schedules at most one init() and runs it at most once; every
\* trigger (the already-loaded path, DOMContentLoaded, the Webflow callback) leaves
\* the bootstrap flag set; and once the flag is set, init() eventually has run
\* exactly once from the bootstrap, whatever reinit() calls are made
C19_BootstrapOnce ==
  /\ [](initTimers + autoInits <= 1)
  /\ [](readyState = "complete" => initialized)
  /\ [][ (DOMContentLoaded \/ WebflowReady) => initialized' ]_vars
  /\ initialized ~> (autoInits = 1 /\ initTimers = 0)

\* the bootstrap's init() has run after an explicit reinit() on a page that has
\* finished loading
C19_Witness ==
  /\ autoInits = 1
  /\ initTimers = 0
  /\ initialized
  /\ readyState = "complete"
  /\ reinits > 0
  /\ lastOp.op = "init"

====
